---- MODULE Spec2Model ----
(***************************************************************************)
(* Model of the real-time synchronisation layer of the gRPC dashboard UI:  *)
(*   - SocketService (src/src/services/socket.ts): the event channel       *)
(*     client with its reconnection policy;                                *)
(*   - the Connections page's view-state merge (src/src/pages/             *)
(*     Connections.tsx, handleConnectionUpdate / handleConnectionsUpdate); *)
(*   - the Logs page's and the Dashboard's bounded log merge               *)
(*     (src/src/pages/Connections.tsx, Logs.handleLogUpdate;               *)
(*     src/unnamed/part_003, Dashboard.handleLogUpdate).                   *)
(***************************************************************************)
EXTENDS Integers, Sequences, FiniteSets, TLC

(***************************************************************************)
(* Bounds of the model.                                                    *)
(***************************************************************************)
\* channels (sockets returned by io()) created in one run
MaxChannels == 4
\* retry timers (setTimeout callbacks) pending at the same time
MaxTimers == 5
\* distinct connection ids the backend reports
MaxConnIds == 3
\* largest value entered in the Logs page's Limit field (InputNumber min=1)
MaxLimit == 3
\* the Logs page's initial limit (50 in the source), scaled to the model
DefaultLimit == 2
\* entries a log fetch returns at most
MaxFetchLen == 4
\* entries of the backend's numbered log stream pushed in one run
MaxPushes == 5
\* fetch calls of one page in flight at the same time
MaxPending == 4
\* requests written to the event channel in one run
MaxEmits == 3
\* on() calls in one run
MaxRegs == 3
\* Transport Client calls in one run
MaxCalls == 3
\* window.setInterval calls in one run
MaxIntervals == 3
\* largest value of Date.now() in one run (milliseconds after the start)
MaxClock == 2

(***************************************************************************)
(* Program constants.                                                      *)
(***************************************************************************)
\* private maxReconnectAttempts: number = 5
DefaultMaxReconnectAttempts == 5
\* private reconnectionDelay: number = 1000
DefaultReconnectionDelay == 1000
\* Dashboard.handleLogUpdate: [log, ...prev].slice(0, 5)
DashboardLogLimit == 5
\* the refresh interval of the default settings, in seconds
DefaultRefreshSeconds == 5

\* the routes of the application
Pages == {"dashboard", "services", "connections", "logs", "stats"}

\* the events getServices, getConnections, getLogs and getStats emit
RequestEvents == {"getServices", "getConnections", "getLogs", "getStats"}

\* addresses a consumer passes to connect(url)
Urls == {"origin", "custom"}

\* reasons socket.io reports with its 'disconnect' event
ClientDisconnect == "io client disconnect"
Reasons == {ClientDisconnect, "transport close"}

(***************************************************************************)
(* State of the SocketService singleton.  A channel is a socket returned   *)
(* by io(); chans[c] is what the library knows about channel c:            *)
(*   "opening"  created, the connection attempt is running                 *)
(*   "open"     connected (socket.connected = true)                        *)
(*   "down"     connect_error or unexpected close; the library may retry   *)
(*   "torn"     socket.disconnect() was called; a close event of the       *)
(*              channel may still be in flight                             *)
(*   "dead"     torn down and silent                                       *)
(* socket = 0 models this.socket = null, socket = c a reference to c.      *)
(***************************************************************************)
VARIABLES
    socket,                 \* this.socket
    chans,                  \* the channels created so far
    reconnectAttempts,      \* this.reconnectAttempts
    maxReconnectAttempts,   \* this.maxReconnectAttempts
    reconnectionDelay,      \* this.reconnectionDelay
    url,                    \* this.url
    autoReconnect,          \* this.autoReconnect
    timers,                 \* delays of the pending setTimeout callbacks
    maxReached,             \* 'Maximum reconnection attempts reached' was logged
                            \* since the last Connected / consumer call
    userClosed,             \* the consumer's last call was disconnect()
    lastOp,                 \* the step taken last
    prevLen,                \* length of the stored sequence before the last push
    connections,            \* Connections page: useState<GrpcConnection[]>
    page,                   \* the page the router has mounted
    logs,                   \* Logs page: useState<LogEntry[]>
    filters,                \* Logs page: useState<LogFilter>
    dashboardLogs,          \* Dashboard: useState<LogEntry[]>
    pushCount,              \* entries of the numbered log stream merged so far
    pending,                \* the mounted page's fetch calls awaiting a response
    flags,                  \* per fetch function of the mounted page its
                            \* loading flag, its error text ("": null) and
                            \* how its most recently issued call ended
    services,               \* Services / Dashboard / Logs: useState<GrpcServiceInfo[]>
    stats,                  \* Stats / Dashboard: useState<StatsData>
    arrival,                \* per full-replace domain, the payload that arrived
                            \* last, if the view was not merged into since
    emitted,                \* the events socket.emit was called with, in order
    handlers,               \* this.handlers: per event the registered functions,
                            \* each with the number of the on() call that added it
    caps,                   \* the closures on() has returned: caps[n] holds the
                            \* event and the function the n-th call captured
    lastCap,                \* the closure called last (0: none)
    dispatch,               \* the last triggerHandlers call: its event, the
                            \* handlers invoked, and whether its caller saw an
                            \* exception
    iteration,              \* the forEach of a triggerHandlers call whose
                            \* handlers call on() and off(): the array object
                            \* it iterates, whether this.handlers[event] still
                            \* is that object, the length it began with, its
                            \* position, and what it has invoked
    abortControllers,       \* ApiClient.abortControllers: Map<string, AbortController>
    calls,                  \* the Transport Client calls made so far; call k owns
                            \* the AbortController k
    reports,                \* per call the response error handler ran for: how
                            \* the call failed, the notification shown and
                            \* whether the caller's promise was rejected
    now,                    \* Date.now()
    refreshInterval,        \* the mounted page's useState<number | null>, 0: null
    intervals,              \* the timers window.setInterval has created:
                            \* intervals[id] holds the page whose callback it
                            \* runs and whether it is active or cleared
    intervalId              \* intervalId of the mounted page's current effect
                            \* run, 0: undefined

serviceVars == <<socket, chans, reconnectAttempts, maxReconnectAttempts,
                 reconnectionDelay, url, autoReconnect, timers, maxReached,
                 userClosed>>

connectionsVars == <<connections>>

logsVars == <<page, logs, filters, dashboardLogs>>

streamVars == <<pushCount>>

fetchVars == <<pending, flags>>

replaceVars == <<services, stats, arrival>>

\* what the steps of the Connections page, the Logs page and the Dashboard
\* leave alone besides the service
requestVars == <<emitted>>

handlerVars == <<handlers, caps, lastCap, dispatch, iteration>>

\* the parts of the clients no page step of the model reaches
apiVars == <<abortControllers, calls, reports, now>>

clientVars == <<handlerVars, apiVars>>

timerVars == <<refreshInterval, intervals, intervalId>>

syncVars == <<streamVars, requestVars, clientVars, timerVars>>

pageVars == <<prevLen, connectionsVars, logsVars, fetchVars, replaceVars,
              syncVars>>

vars == <<serviceVars, lastOp, pageVars>>

\* event names consumers subscribe to, and the functions they register
Events == {"log", "services"}
HandlerFns == {"f", "g"}

\* the service object as one value
This ==
    [socket |-> socket, chans |-> chans,
     reconnectAttempts |-> reconnectAttempts,
     maxReconnectAttempts |-> maxReconnectAttempts,
     reconnectionDelay |-> reconnectionDelay,
     url |-> url, autoReconnect |-> autoReconnect,
     timers |-> timers, maxReached |-> maxReached]

\* this.socket?.connected || false
isConnected(s) ==
    s.socket # 0 /\ s.chans[s.socket] = "open"

\* on() as it would be if it put the new handler first
onUnshift(hs, event, handler, n) ==
    LET arr == IF event \in DOMAIN hs THEN hs[event] ELSE <<>>
        new == <<[fn |-> handler, reg |-> n]>> \o arr
    IN  [e \in DOMAIN hs \cup {event} |-> IF e = event THEN new ELSE hs[e]]

\* on: socket.ts 154-164; n numbers the call.  The array of the event is
\* created when it is missing and the handler is pushed to its end.
on(hs, event, handler, n) ==
    LET arr == IF event \in DOMAIN hs THEN hs[event] ELSE <<>>
        new == Append(arr, [fn |-> handler, reg |-> n])
    IN  [e \in DOMAIN hs \cup {event} |-> IF e = event THEN new ELSE hs[e]]

\* off: socket.ts 172-176; filter((h) => h !== handler) compares functions
off(hs, event, handler) ==
    IF event \in DOMAIN hs
    THEN [hs EXCEPT ![event] = SelectSeq(hs[event], LAMBDA h : h.fn # handler)]
    ELSE hs

\* triggerHandlers as it would be without try / catch: forEach stops at the
\* first handler that throws and the exception reaches the caller
RECURSIVE forEachUncaught(_, _)
forEachUncaught(arr, throwing) ==
    IF arr = <<>> THEN [invoked |-> <<>>, escaped |-> FALSE]
    ELSE IF Head(arr).fn \in throwing
         THEN [invoked |-> <<Head(arr)>>, escaped |-> TRUE]
         ELSE LET rest == forEachUncaught(Tail(arr), throwing)
              IN  [invoked |-> <<Head(arr)>> \o rest.invoked,
                   escaped |-> rest.escaped]

triggerHandlersUncaught(hs, event, throwing) ==
    IF event \in DOMAIN hs
    THEN forEachUncaught(hs[event], throwing)
    ELSE [invoked |-> <<>>, escaped |-> FALSE]

\* the forEach of triggerHandlers, socket.ts 187-193: every handler is
\* called inside try / catch; throwing are the functions that throw
RECURSIVE forEach(_, _)
forEach(arr, throwing) ==
    IF arr = <<>> THEN [invoked |-> <<>>, escaped |-> FALSE]
    ELSE LET rest == forEach(Tail(arr), throwing)
         IN  [invoked |-> <<Head(arr)>> \o rest.invoked,
              escaped |-> rest.escaped]

\* triggerHandlers: socket.ts 185-195
triggerHandlers(hs, event, throwing) ==
    IF event \in DOMAIN hs
    THEN forEach(hs[event], throwing)
    ELSE [invoked |-> <<>>, escaped |-> FALSE]

\* the forEach as it would be if it read the array's length at every step
\* (as for..of does)
visitBoundLive(it) ==
    Len(it.arr)

\* Array.prototype.forEach visits the indices below the length the array
\* had when it was called: socket.ts 187
visitBound(it) ==
    it.len

\* triggerHandlers(event) begins: forEach is called on the array
\* this.handlers[event] refers to; without an array nothing is visited
forEachBegin(hs, event) ==
    LET arr == IF event \in DOMAIN hs THEN hs[event] ELSE <<>>
    IN  [event |-> event, arr |-> arr, live |-> event \in DOMAIN hs,
         len |-> Len(arr), pos |-> 0, started |-> arr, invoked |-> <<>>,
         busy |-> TRUE]

\* a handler called by the forEach has called on(event, ...): push appends
\* to the array this.handlers[event] refers to, which is the iterated
\* array as long as no off() has replaced it (socket.ts 158)
afterOn(it, hs, event) ==
    IF it.live /\ event = it.event THEN [it EXCEPT !.arr = hs[event]] ELSE it

\* a handler called by the forEach has called off(event, ...): filter
\* builds a new array and this.handlers[event] refers to it from then on;
\* the iterated array is not changed (socket.ts 174)
afterOff(it, event) ==
    IF event = it.event THEN [it EXCEPT !.live = FALSE] ELSE it

\* getServices and its siblings as they would be without the test of
\* socket.connected (socket.io buffers what is emitted on a socket that is
\* not connected and sends it once the socket connects)
requestUnguarded(s, out, event) ==
    IF s.socket # 0 THEN Append(out, event) ELSE out

\* getServices / getConnections / getLogs / getStats: socket.ts 200-241;
\* out is what socket.emit has been called with so far
request(s, out, event) ==
    IF s.socket # 0 /\ s.chans[s.socket] = "open"
    THEN Append(out, event)
    ELSE out

\* several requests one after the other
RECURSIVE requestAll(_, _, _)
requestAll(s, out, events) ==
    IF events = <<>> THEN out
    ELSE requestAll(s, request(s, out, Head(events)), Tail(events))

\* disconnect() as it would be without line 140 (autoReconnect stays set)
disconnectKeepsAutoReconnect(s) ==
    IF s.socket # 0
    THEN [s EXCEPT !.chans[s.socket] = "torn",
                   !.socket = 0,
                   !.reconnectAttempts = 0]
    ELSE s

\* disconnect(): socket.ts 137-145
disconnect(s) ==
    IF s.socket # 0
    THEN [s EXCEPT !.autoReconnect = FALSE,
                   !.chans[s.socket] = "torn",
                   !.socket = 0,
                   !.reconnectAttempts = 0]
    ELSE s

\* connect() as it would be without the teardown of lines 46-48
connectNoTeardown(s, u, thrown) ==
    LET s1 == [s EXCEPT !.url = u]
    IN  IF thrown
        THEN s1
        ELSE [s1 EXCEPT !.chans = Append(s1.chans, "opening"),
                        !.socket = Len(s1.chans) + 1]

\* connect(url): socket.ts 42-112.  thrown: io() throws and the catch
\* branch returns null.
connect(s, u, thrown) ==
    LET s1 == [s EXCEPT !.url = u]
        s2 == IF s1.socket # 0 THEN disconnect(s1) ELSE s1
    IN  IF thrown
        THEN s2
        ELSE [s2 EXCEPT !.chans = Append(s2.chans, "opening"),
                        !.socket = Len(s2.chans) + 1]

\* attemptReconnect() with an exponential backoff, delay * 2^(attempt - 1)
attemptReconnectExponential(s) ==
    IF s.reconnectAttempts < s.maxReconnectAttempts
    THEN [s EXCEPT !.reconnectAttempts = s.reconnectAttempts + 1,
                   !.timers = Append(s.timers,
                        s.reconnectionDelay * (2 ^ s.reconnectAttempts))]
    ELSE [s EXCEPT !.maxReached = TRUE]

\* attemptReconnect(): socket.ts 119-132
attemptReconnect(s) ==
    IF s.reconnectAttempts < s.maxReconnectAttempts
    THEN [s EXCEPT !.reconnectAttempts = s.reconnectAttempts + 1,
                   !.timers = Append(s.timers,
                        s.reconnectionDelay * (s.reconnectAttempts + 1))]
    ELSE [s EXCEPT !.maxReached = TRUE]

\* the 'connect' listener as it would be without line 62
onConnectNoReset(s) ==
    s

\* the 'connect' listener: socket.ts 60-64
onConnect(s) ==
    [s EXCEPT !.reconnectAttempts = 0]

\* the 'disconnect' listener: socket.ts 66-74
onDisconnect(s, reason) ==
    IF s.autoReconnect /\ reason # ClientDisconnect
    THEN attemptReconnect(s)
    ELSE s

\* the 'connect_error' listener: socket.ts 76-84
onConnectError(s) ==
    IF s.autoReconnect THEN attemptReconnect(s) ELSE s

\* setAutoReconnect(value): socket.ts 257-259
setAutoReconnect(s, value) ==
    [s EXCEPT !.autoReconnect = value]

\* configureReconnection(options): socket.ts 266-274; an option that is
\* undefined is a field the record options lacks
configureReconnection(s, options) ==
    [s EXCEPT !.maxReconnectAttempts =
                  IF "maxAttempts" \in DOMAIN options THEN options.maxAttempts ELSE @,
              !.reconnectionDelay =
                  IF "delay" \in DOMAIN options THEN options.delay ELSE @]

\* the assignment of a service value to the fields
Becomes(s) ==
    /\ socket' = s.socket
    /\ chans' = s.chans
    /\ reconnectAttempts' = s.reconnectAttempts
    /\ maxReconnectAttempts' = s.maxReconnectAttempts
    /\ reconnectionDelay' = s.reconnectionDelay
    /\ url' = s.url
    /\ autoReconnect' = s.autoReconnect
    /\ timers' = s.timers
    /\ maxReached' = s.maxReached

RemoveAt(seq, i) ==
    SubSeq(seq, 1, i - 1) \o SubSeq(seq, i + 1, Len(seq))

InitSocket ==
    /\ socket = 0
    /\ chans = <<>>
    /\ reconnectAttempts = 0
    /\ maxReconnectAttempts = DefaultMaxReconnectAttempts
    /\ reconnectionDelay = DefaultReconnectionDelay
    /\ url = ""
    /\ autoReconnect = TRUE
    /\ timers = <<>>
    /\ maxReached = FALSE
    /\ userClosed = FALSE

\* the consumer calls socketService.connect(u)
Connect(u, thrown) ==
    /\ Len(chans) < MaxChannels
    /\ Becomes([connect(This, u, thrown) EXCEPT !.maxReached = FALSE])
    /\ userClosed' = FALSE
    /\ lastOp' = "connect"
    /\ UNCHANGED pageVars

\* the consumer calls socketService.disconnect(); socket.disconnect() emits
\* 'disconnect' with reason 'io client disconnect' synchronously when the
\* socket was connected, which the listener ignores (autoReconnect is
\* already false and the reason is the client's)
Disconnect ==
    /\ Becomes([disconnect(This) EXCEPT !.maxReached = FALSE])
    /\ userClosed' = TRUE
    /\ lastOp' = "disconnect"
    /\ UNCHANGED pageVars

\* a pending setTimeout callback runs: this.connect(this.url)
RetryTimer(i, thrown) ==
    /\ i \in 1..Len(timers)
    /\ Len(chans) < MaxChannels
    /\ Becomes(connect([This EXCEPT !.timers = RemoveAt(timers, i)], url, thrown))
    /\ UNCHANGED userClosed
    /\ lastOp' = "timer"
    /\ UNCHANGED pageVars

\* the channel this.socket refers to reports 'connect'
SocketConnect ==
    /\ socket # 0
    /\ chans[socket] \in {"opening", "down"}
    /\ Becomes([onConnect([This EXCEPT !.chans[socket] = "open"])
                    EXCEPT !.maxReached = FALSE])
    /\ UNCHANGED userClosed
    /\ lastOp' = "evConnect"
    /\ UNCHANGED pageVars

\* the channel this.socket refers to reports 'connect_error'
SocketConnectError ==
    /\ socket # 0
    /\ chans[socket] \in {"opening", "down"}
    /\ LET s == onConnectError([This EXCEPT !.chans[socket] = "down"])
       IN  /\ Len(s.timers) <= MaxTimers
           /\ Becomes(s)
    /\ UNCHANGED userClosed
    /\ lastOp' = "evConnectError"
    /\ UNCHANGED pageVars

\* the channel this.socket refers to is closed by the server or the transport
SocketDisconnect(reason) ==
    /\ socket # 0
    /\ chans[socket] = "open"
    /\ reason # ClientDisconnect
    /\ LET s == onDisconnect([This EXCEPT !.chans[socket] = "down"], reason)
       IN  /\ Len(s.timers) <= MaxTimers
           /\ Becomes(s)
    /\ UNCHANGED userClosed
    /\ lastOp' = "evDisconnect"
    /\ UNCHANGED pageVars

\* a close event of a channel that was torn down arrives late; its listener
\* is still attached and runs against the service
LateClose(c, reason) ==
    /\ c \in 1..Len(chans)
    /\ chans[c] = "torn"
    /\ LET s == onDisconnect([This EXCEPT !.chans[c] = "dead"], reason)
       IN  /\ Len(s.timers) <= MaxTimers
           /\ Becomes(s)
    /\ UNCHANGED userClosed
    /\ lastOp' = "evLateClose"
    /\ UNCHANGED pageVars

\* the consumer calls socketService.setAutoReconnect(value)
SetAutoReconnect(value) ==
    /\ Becomes(setAutoReconnect(This, value))
    /\ UNCHANGED userClosed
    /\ lastOp' = "setAutoReconnect"
    /\ UNCHANGED pageVars

\* the consumer calls socketService.configureReconnection(options)
ConfigureReconnection(options) ==
    /\ Becomes(configureReconnection(This, options))
    /\ UNCHANGED userClosed
    /\ lastOp' = "configure"
    /\ UNCHANGED pageVars

(***************************************************************************)
(* Fetch calls of the mounted page: every page's subscription effect calls *)
(* its fetchX() when it runs and aborts the calls in flight when it is     *)
(* cleaned up.                                                             *)
(***************************************************************************)
\* a fetch call in flight: the useCallback that awaits the response, what
\* made the call, and whether a bulk push of the same domain has been stored
\* since the call was made
Fetch(call, cause) == [call |-> call, cause |-> cause, overtaken |-> FALSE]

\* the fetch calls the page's subscription effect makes when it runs; its
\* cleanup has aborted the calls of the run before (ApiService
\* .abortAllRequests(): the aborted awaits reject and store nothing)
effectFetches(p, cause) ==
    CASE p = "logs" -> <<Fetch("fetchLogs", cause), Fetch("fetchServices", cause)>>
      [] p = "dashboard" -> <<Fetch("fetchServices", cause), Fetch("fetchLogs", cause),
                              Fetch("fetchStats", cause)>>
      [] p = "services" -> <<Fetch("fetchServices", cause)>>
      [] p = "connections" -> <<Fetch("fetchConnections", cause)>>
      [] p = "stats" -> <<Fetch("fetchStats", cause)>>

\* the requests the page's subscription effect makes on the event channel
\* when it runs, if (socketService.isConnected()): Services.tsx 114-116,
\* Connections.tsx 107-109 and 670-676, api.ts 169-171, part_003 167-171
effectRequests(p) ==
    CASE p = "logs" -> <<"getLogs">>
      [] p = "dashboard" -> <<"getServices", "getLogs", "getStats">>
      [] p = "services" -> <<"getServices">>
      [] p = "connections" -> <<"getConnections">>
      [] p = "stats" -> <<"getStats">>

\* what a setInterval callback of the page's auto-refresh does, by page:
\* the requests it makes on the event channel and the fetch calls it makes
\* Services.tsx 121-127
servicesTick(connected) ==
    IF connected
    THEN [requests |-> <<"getServices">>, fetches |-> <<>>]
    ELSE [requests |-> <<>>, fetches |-> <<Fetch("fetchServices", "timer")>>]

\* Connections.tsx 114-120
connectionsTick(connected) ==
    IF connected
    THEN [requests |-> <<"getConnections">>, fetches |-> <<>>]
    ELSE [requests |-> <<>>, fetches |-> <<Fetch("fetchConnections", "timer")>>]

\* api.ts 176-182
statsTick(connected) ==
    IF connected
    THEN [requests |-> <<"getStats">>, fetches |-> <<>>]
    ELSE [requests |-> <<>>, fetches |-> <<Fetch("fetchStats", "timer")>>]

\* part_003 175-184: fetchData() is fetchServices(), fetchLogs(), fetchStats()
dashboardTick(connected) ==
    IF connected
    THEN [requests |-> <<"getServices", "getLogs", "getStats">>, fetches |-> <<>>]
    ELSE [requests |-> <<>>,
          fetches |-> <<Fetch("fetchServices", "timer"), Fetch("fetchLogs", "timer"),
                        Fetch("fetchStats", "timer")>>]

\* Connections.tsx 681-683: fetchLogs(), whatever the channel's state
logsTick(connected) ==
    [requests |-> <<>>, fetches |-> <<Fetch("fetchLogs", "timer")>>]

intervalTick(p, connected) ==
    CASE p = "logs" -> logsTick(connected)
      [] p = "dashboard" -> dashboardTick(connected)
      [] p = "services" -> servicesTick(connected)
      [] p = "connections" -> connectionsTick(connected)
      [] p = "stats" -> statsTick(connected)

\* the fetch functions that keep a loading flag and an error text
FlagCalls == {"fetchServices", "fetchConnections", "fetchLogs", "fetchStats"}

\* useState(false) and useState<string | null>(null): Services.tsx 50-51
NoFlags ==
    [c \in FlagCalls |-> [loading |-> FALSE, error |-> "", latest |-> "none"]]

\* the fetch function a call in flight belongs to: the Stats page's
\* fetchStats awaits getStats() and then getSystemInfo() (api.ts 139-144)
flagOf(call) == IF call = "getSystemInfo" THEN "fetchStats" ELSE call

\* the Logs page's fetchServices keeps no flags: Connections.tsx 633-640
hasFlags(p, call) == ~(p = "logs" /\ call = "fetchServices")

\* setLoading(true); setError(null): Services.tsx 89-90
fetchBegin(fl, p, call) ==
    IF hasFlags(p, call)
    THEN [fl EXCEPT ![flagOf(call)] =
                [loading |-> TRUE, error |-> "", latest |-> "flight"]]
    ELSE fl

\* the await returned and the finally branch ran: setLoading(false),
\* Services.tsx 91-92 and 96-98; newest: the call was the one issued last
fetchSucceeded(fl, p, call, newest) ==
    IF hasFlags(p, call)
    THEN [fl EXCEPT ![flagOf(call)].loading = FALSE,
                    ![flagOf(call)].latest = IF newest THEN "ok" ELSE @]
    ELSE fl

\* the await threw and the catch and finally branches ran:
\* setError('Failed to fetch ...'); setLoading(false), Services.tsx 93-98
fetchCaught(fl, p, call, newest) ==
    IF hasFlags(p, call)
    THEN [fl EXCEPT ![flagOf(call)].loading = FALSE,
                    ![flagOf(call)].error = "failed",
                    ![flagOf(call)].latest = IF newest THEN "failed" ELSE @]
    ELSE fl

\* several fetch functions are called one after the other
RECURSIVE fetchBeginAll(_, _, _)
fetchBeginAll(fl, p, fetches) ==
    IF fetches = <<>> THEN fl
    ELSE fetchBeginAll(fetchBegin(fl, p, Head(fetches).call), p, Tail(fetches))

\* the calls in flight were aborted and their awaits threw
RECURSIVE fetchCaughtAll(_, _, _)
fetchCaughtAll(fl, p, fetches) ==
    IF fetches = <<>> THEN fl
    ELSE fetchCaughtAll(fetchCaught(fl, p, Head(fetches).call, FALSE), p,
                        Tail(fetches))

\* the flags after the subscription effect of page p ran again: its
\* cleanup aborts the calls in flight (ApiService.abortAllRequests(),
\* Services.tsx 134), its body calls the fetch functions (108), and then,
\* before any response or timer is handled, the aborted awaits throw
effectFlags(fl, p, aborted, issued) ==
    fetchCaughtAll(fetchBeginAll(fl, p, issued), p, aborted)

\* the i-th call in flight is the one its fetch function issued last
newest(fetches, i, fl) ==
    /\ fl[flagOf(fetches[i].call)].latest = "flight"
    /\ \A j \in (i + 1)..Len(fetches) :
          flagOf(fetches[j].call) # flagOf(fetches[i].call)

InitFetch ==
    /\ pending = effectFetches("logs", "mount")
    /\ flags = fetchBeginAll(NoFlags, "logs", pending)

\* the cleanup's clearInterval as it would be if it were left out
clearIntervalLeftOut(ts, id) ==
    ts

\* if (intervalId) clearInterval(intervalId): Services.tsx 133
clearInterval(ts, id) ==
    IF id # 0 THEN [ts EXCEPT ![id].state = "cleared"] ELSE ts

\* window.setInterval(callback, refreshInterval) by the effect of page p:
\* Services.tsx 121-127; the id of the timer is its position
setInterval(ts, p) ==
    Append(ts, [page |-> p, state |-> "active"])

\* the timers after the subscription effect of page p ran again: the cleanup
\* of the run before (Services.tsx 131-135) and the auto-refresh setup of
\* the new run (Services.tsx 119-128), ms being refreshInterval
effectTimers(ts, id, p, ms) ==
    LET cleared == clearInterval(ts, id)
    IN  IF ms # 0
        THEN [intervals |-> setInterval(cleared, p), intervalId |-> Len(cleared) + 1]
        ELSE [intervals |-> cleared, intervalId |-> 0]

InitTimers ==
    /\ refreshInterval = 0
    /\ intervals = <<>>
    /\ intervalId = 0

\* a bulk push of the domain that `call` fetches has been stored
overtake(fetches, call) ==
    [i \in 1..Len(fetches) |->
        IF fetches[i].call = call THEN [fetches[i] EXCEPT !.overtaken = TRUE]
        ELSE fetches[i]]

(***************************************************************************)
(* Connections page: the merge of 'connection' and 'connections' pushes    *)
(* into the connections view-state.                                        *)
(***************************************************************************)
ConnIds == 1..MaxConnIds

\* the Stats page's initial StatsData: api.ts 93-98
InitialStats == [totalRequests |-> 0]

\* GrpcConnection, reduced to its identity and its status (two of the three
\* values of the enum)
ConnectionRecords == [id : ConnIds, status : {"connected", "error"}]

\* the full sets the backend sends: any order, ids pairwise distinct
ConnectionSets ==
    {s \in UNION {[1..n -> ConnectionRecords] : n \in 0..MaxConnIds} :
        \A i, j \in 1..Len(s) : i # j => s[i].id # s[j].id}

\* prev.findIndex((c) => c.id === id): the first match, 0 for -1
findIndex(prev, id) ==
    LET hits == {i \in 1..Len(prev) : prev[i].id = id}
    IN  IF hits = {} THEN 0
        ELSE CHOOSE i \in hits : \A j \in hits : i <= j

\* handleConnectionUpdate as it would be without the findIndex branch
handleConnectionUpdateAppend(prev, connection) ==
    Append(prev, connection)

\* handleConnectionUpdate: Connections.tsx 79-92
handleConnectionUpdate(prev, connection) ==
    LET index == findIndex(prev, connection.id)
    IN  IF index >= 1
        THEN [prev EXCEPT ![index] = connection]
        ELSE Append(prev, connection)

\* handleConnectionsUpdate: Connections.tsx 95-97
handleConnectionsUpdate(prev, connectionsData) ==
    connectionsData

InitConnections ==
    connections = <<>>

\* the domains whose view-state a fetch response or a bulk push replaces
ReplaceDomains == {"services", "connections", "stats"}

\* the payload of a fetch response or bulk push the view was replaced with;
\* late: the fetch was overtaken by a bulk push before its response arrived
Arrived(data, late) == <<[payload |-> data, late |-> late]>>

NoArrival == [d \in ReplaceDomains |-> <<>>]

\* a 'connection' push is dispatched to handleConnectionUpdate
ConnectionPush(c) ==
    /\ page = "connections"
    /\ connections' = handleConnectionUpdate(connections, c)
    /\ arrival' = [arrival EXCEPT !.connections = <<>>]
    /\ prevLen' = Len(connections)
    /\ lastOp' = "pushConnection"
    /\ UNCHANGED <<serviceVars, logsVars, fetchVars, services, stats, syncVars>>

\* a 'connections' push is dispatched to handleConnectionsUpdate
ConnectionsPush(data) ==
    /\ page = "connections"
    /\ connections' = handleConnectionsUpdate(connections, data)
    /\ arrival' = [arrival EXCEPT !.connections = Arrived(data, FALSE)]
    /\ pending' = overtake(pending, "fetchConnections")
    /\ prevLen' = 0
    /\ lastOp' = "pushConnections"
    /\ UNCHANGED <<serviceVars, logsVars, services, stats, syncVars, flags>>

\* fetchConnections as it would be with a guard that drops the response of
\* a call a bulk push has overtaken
FetchConnectionsDoneUnlessOvertaken(i, data) ==
    /\ page = "connections"
    /\ i \in 1..Len(pending)
    /\ pending[i].call = "fetchConnections"
    /\ connections' = IF pending[i].overtaken THEN connections ELSE data
    /\ arrival' = [arrival EXCEPT
                      !.connections = Arrived(data, pending[i].overtaken)]
    /\ pending' = RemoveAt(pending, i)
    /\ flags' = fetchSucceeded(flags, page, "fetchConnections",
                               newest(pending, i, flags))
    /\ prevLen' = 0
    /\ lastOp' = "fetchConnections"
    /\ UNCHANGED <<serviceVars, logsVars, services, stats, syncVars>>

\* the response of the i-th fetch call in flight, a fetchConnections(),
\* arrives: setConnections(data), Connections.tsx 68-69
FetchConnectionsDone(i, data) ==
    /\ page = "connections"
    /\ i \in 1..Len(pending)
    /\ pending[i].call = "fetchConnections"
    /\ connections' = data
    /\ arrival' = [arrival EXCEPT
                      !.connections = Arrived(data, pending[i].overtaken)]
    /\ pending' = RemoveAt(pending, i)
    /\ flags' = fetchSucceeded(flags, page, "fetchConnections",
                               newest(pending, i, flags))
    /\ prevLen' = 0
    /\ lastOp' = "fetchConnections"
    /\ UNCHANGED <<serviceVars, logsVars, services, stats, syncVars>>

(***************************************************************************)
(* Logs page and Dashboard: the bounded merge of 'log' pushes.             *)
(* Texts are sequences of characters; an absent optional field and the     *)
(* empty string, both falsy in every test the code makes, are <<>>.        *)
(***************************************************************************)
\* String.prototype.toLowerCase over the characters used
LowerChar(ch) ==
    CASE ch = "A" -> "a"
      [] ch = "B" -> "b"
      [] OTHER -> ch

toLowerCase(txt) == [i \in 1..Len(txt) |-> LowerChar(txt[i])]

\* String.prototype.includes
includes(txt, sub) ==
    \E i \in 0..(Len(txt) - Len(sub)) : SubSeq(txt, i + 1, i + Len(sub)) = sub

Min(a, b) == IF a < b THEN a ELSE b

Max(a, b) == IF a > b THEN a ELSE b

\* Array.prototype.slice(start, end), negative indices counted from the end
slice(arr, start, end) ==
    LET n  == Len(arr)
        from == IF start < 0 THEN Max(n + start, 0) ELSE Min(start, n)
        to   == IF end < 0 THEN Max(n + end, 0) ELSE Min(end, n)
    IN  SubSeq(arr, from + 1, to)

\* LOG_LEVELS keys
AllLevels == {"error", "warn", "info", "debug", "verbose"}

LogIds == {1, 2}

\* the log entries the backend pushes: entry 2 names its service
LogEntries ==
    {[id |-> i, level |-> l,
      message |-> <<"A", "b">>, context |-> <<"c">>,
      service |-> IF i = 2 THEN <<"b">> ELSE <<>>,
      method |-> <<>>, traceId |-> <<>>] : i \in LogIds, l \in {"error", "info"}}

\* what the severity select, the service select, the search box and the
\* Limit field (InputNumber min={1}, Connections.tsx 1137) can hold
LevelChoices == {AllLevels, {"error", "warn"}}

ServiceChoices == {<<>>, <<"b">>}

SearchChoices == {<<>>, <<"B">>, <<"z">>}

Limits == 1..MaxLimit

\* the initial filters: Connections.tsx 567-572
DefaultFilters ==
    [levels |-> AllLevels, service |-> <<>>, searchText |-> <<>>,
     limit |-> DefaultLimit]

\* the condition of Logs.handleLogUpdate: Connections.tsx 646-654
matchesFilters(log, f) ==
    /\ log.level \in f.levels
    /\ (f.service = <<>> \/ (log.service # <<>> /\ log.service = f.service))
    /\ \/ f.searchText = <<>>
       \/ includes(toLowerCase(log.message), toLowerCase(f.searchText))
       \/ includes(toLowerCase(log.context), toLowerCase(f.searchText))
       \/ (log.service # <<>> /\
             includes(toLowerCase(log.service), toLowerCase(f.searchText)))
       \/ (log.method # <<>> /\
             includes(toLowerCase(log.method), toLowerCase(f.searchText)))

\* Logs.handleLogUpdate truncating one entry late, prev.slice(0, limit)
handleLogUpdateOffByOne(prev, log, f) ==
    IF matchesFilters(log, f)
    THEN <<log>> \o slice(prev, 0, f.limit)
    ELSE prev

\* Logs.handleLogUpdate as it would be if it put the new entry last
handleLogUpdateOldestFirst(prev, log, f) ==
    IF matchesFilters(log, f)
    THEN slice(prev, 0, f.limit - 1) \o <<log>>
    ELSE prev

\* Logs.handleLogUpdate: Connections.tsx 643-659
handleLogUpdate(prev, log, f) ==
    IF matchesFilters(log, f)
    THEN <<log>> \o slice(prev, 0, f.limit - 1)
    ELSE prev

\* filteredLogs: Connections.tsx 812-825, the sequence the table shows
filteredLogs(stored, f) ==
    IF f.searchText = <<>>
    THEN stored
    ELSE SelectSeq(stored, LAMBDA log :
            \/ includes(toLowerCase(log.message), toLowerCase(f.searchText))
            \/ includes(toLowerCase(log.context), toLowerCase(f.searchText))
            \/ (log.service # <<>> /\
                  includes(toLowerCase(log.service), toLowerCase(f.searchText)))
            \/ (log.method # <<>> /\
                  includes(toLowerCase(log.method), toLowerCase(f.searchText)))
            \/ (log.traceId # <<>> /\
                  includes(toLowerCase(log.traceId), toLowerCase(f.searchText))))

\* Dashboard.handleLogUpdate: part_003 148-150
dashboardHandleLogUpdate(prev, log) ==
    slice(<<log>> \o prev, 0, DashboardLogLimit)

\* the n newest entries of the backend, as a fetch returns them
ServerLogs(n) ==
    [i \in 1..n |->
        [id |-> IF i % 2 = 1 THEN 1 ELSE 2,
         level |-> IF i % 3 = 0 THEN "info" ELSE "error",
         message |-> <<"A", "b">>, context |-> <<"c">>,
         service |-> IF i % 2 = 0 THEN <<"b">> ELSE <<>>,
         method |-> <<>>, traceId |-> <<>>]]

InitLogs ==
    /\ page = "logs"
    /\ logs = <<>>
    /\ filters = DefaultFilters
    /\ dashboardLogs = <<>>

\* the router mounts page p: the components' state starts afresh
Navigate(p) ==
    /\ p # page
    /\ page' = p
    /\ logs' = <<>>
    /\ filters' = DefaultFilters
    /\ dashboardLogs' = <<>>
    /\ connections' = <<>>
    /\ services' = <<>>
    /\ stats' = InitialStats
    /\ arrival' = NoArrival
    /\ pending' = effectFetches(p, "mount")
    /\ flags' = fetchBeginAll(NoFlags, p, pending')
    /\ emitted' = requestAll(This, emitted, effectRequests(p))
    /\ Len(emitted') <= MaxEmits
    /\ refreshInterval' = 0
    /\ intervals' = clearInterval(intervals, intervalId)
    /\ intervalId' = 0
    /\ prevLen' = 0
    /\ lastOp' = "navigate"
    /\ UNCHANGED <<serviceVars, streamVars, clientVars>>

\* a 'log' push is dispatched to Logs.handleLogUpdate
LogsLogPush(log) ==
    /\ page = "logs"
    /\ logs' = handleLogUpdate(logs, log, filters)
    /\ prevLen' = Len(logs)
    /\ lastOp' = IF matchesFilters(log, filters) THEN "pushLog" ELSE "pushLogDropped"
    /\ UNCHANGED <<serviceVars, connectionsVars, fetchVars, replaceVars, syncVars,
                   page, filters, dashboardLogs>>

\* a 'log' push is dispatched to Dashboard.handleLogUpdate
DashboardLogPush(log) ==
    /\ page = "dashboard"
    /\ dashboardLogs' = dashboardHandleLogUpdate(dashboardLogs, log)
    /\ prevLen' = Len(dashboardLogs)
    /\ lastOp' = "pushLog"
    /\ UNCHANGED <<serviceVars, connectionsVars, fetchVars, replaceVars, syncVars,
                   page, filters, logs>>

\* the response of the i-th fetch call in flight, a fetchLogs(), arrives:
\* setLogs(data), Connections.tsx 618-623.  The step is "refetchLogs" when
\* the call was made by the effect run a filter change caused.
FetchLogsDone(i, n) ==
    /\ page = "logs"
    /\ i \in 1..Len(pending)
    /\ pending[i].call = "fetchLogs"
    /\ logs' = ServerLogs(n)
    /\ pending' = RemoveAt(pending, i)
    /\ flags' = fetchSucceeded(flags, page, "fetchLogs", newest(pending, i, flags))
    /\ prevLen' = 0
    /\ lastOp' = IF pending[i].cause = "filter" THEN "refetchLogs" ELSE "fetchLogs"
    /\ UNCHANGED <<serviceVars, connectionsVars, replaceVars, syncVars,
                   page, filters, dashboardLogs>>

\* the response of the Dashboard's fetchLogs() arrives: part_003 112-113
DashboardFetchLogsDone(i, n) ==
    /\ page = "dashboard"
    /\ i \in 1..Len(pending)
    /\ pending[i].call = "fetchLogs"
    /\ dashboardLogs' = ServerLogs(n)
    /\ pending' = RemoveAt(pending, i)
    /\ flags' = fetchSucceeded(flags, page, "fetchLogs", newest(pending, i, flags))
    /\ prevLen' = 0
    /\ lastOp' = "fetchLogs"
    /\ UNCHANGED <<serviceVars, connectionsVars, replaceVars, syncVars,
                   page, filters, logs>>

\* applyFilters as it would be if it emptied the list it is about to refresh
ApplyFiltersClearsLogs(levels, service, searchText, limit) ==
    /\ page = "logs"
    /\ filters' = [levels |-> levels, service |-> service,
                   searchText |-> searchText, limit |-> limit]
    /\ logs' = <<>>
    /\ pending' = effectFetches("logs", "filter")
    /\ flags' = effectFlags(flags, "logs", pending, pending')
    /\ emitted' = requestAll(This, emitted, effectRequests("logs"))
    /\ Len(emitted') <= MaxEmits
    /\ prevLen' = 0
    /\ lastOp' = "applyFilters"
    /\ LET t == effectTimers(intervals, intervalId, "logs", refreshInterval)
       IN  /\ intervals' = t.intervals
           /\ intervalId' = t.intervalId
    /\ Len(intervals') <= MaxIntervals
    /\ UNCHANGED <<serviceVars, connectionsVars, replaceVars, streamVars,
                   clientVars, page, dashboardLogs, refreshInterval>>

\* applyFilters: Connections.tsx 719-727.  setFilters stores a new filters
\* object, so the subscription effect (dependencies fetchLogs,
\* handleLogUpdate, filters: Connections.tsx 662-692) runs again: its
\* cleanup aborts the calls in flight and its body calls fetchLogs() and
\* fetchServices() with the new filters.
ApplyFilters(levels, service, searchText, limit) ==
    /\ page = "logs"
    /\ filters' = [levels |-> levels, service |-> service,
                   searchText |-> searchText, limit |-> limit]
    /\ pending' = effectFetches("logs", "filter")
    /\ flags' = effectFlags(flags, "logs", pending, pending')
    /\ emitted' = requestAll(This, emitted, effectRequests("logs"))
    /\ Len(emitted') <= MaxEmits
    /\ prevLen' = 0
    /\ lastOp' = "applyFilters"
    /\ LET t == effectTimers(intervals, intervalId, "logs", refreshInterval)
       IN  /\ intervals' = t.intervals
           /\ intervalId' = t.intervalId
    /\ Len(intervals') <= MaxIntervals
    /\ UNCHANGED <<serviceVars, connectionsVars, replaceVars, streamVars,
                   clientVars, page, logs, dashboardLogs, refreshInterval>>

\* debouncedSearch: Connections.tsx 730-736
DebouncedSearch(value) ==
    /\ page = "logs"
    /\ filters' = [filters EXCEPT !.searchText = value]
    /\ pending' = effectFetches("logs", "filter")
    /\ flags' = effectFlags(flags, "logs", pending, pending')
    /\ emitted' = requestAll(This, emitted, effectRequests("logs"))
    /\ Len(emitted') <= MaxEmits
    /\ prevLen' = 0
    /\ lastOp' = "search"
    /\ LET t == effectTimers(intervals, intervalId, "logs", refreshInterval)
       IN  /\ intervals' = t.intervals
           /\ intervalId' = t.intervalId
    /\ Len(intervals') <= MaxIntervals
    /\ UNCHANGED <<serviceVars, connectionsVars, replaceVars, streamVars,
                   clientVars, page, logs, dashboardLogs, refreshInterval>>

\* resetFilters: Connections.tsx 749-759
ResetFilters ==
    /\ page = "logs"
    /\ filters' = DefaultFilters
    /\ pending' = effectFetches("logs", "filter")
    /\ flags' = effectFlags(flags, "logs", pending, pending')
    /\ emitted' = requestAll(This, emitted, effectRequests("logs"))
    /\ Len(emitted') <= MaxEmits
    /\ prevLen' = 0
    /\ lastOp' = "resetFilters"
    /\ LET t == effectTimers(intervals, intervalId, "logs", refreshInterval)
       IN  /\ intervals' = t.intervals
           /\ intervalId' = t.intervalId
    /\ Len(intervals') <= MaxIntervals
    /\ UNCHANGED <<serviceVars, connectionsVars, replaceVars, streamVars,
                   clientVars, page, logs, dashboardLogs, refreshInterval>>

InitStream ==
    pushCount = 0

(***************************************************************************)
(* Services and statistics: the view-state of the Services page, the Stats *)
(* page and the Dashboard, replaced by every fetch response and every      *)
(* 'services' / 'stats' push.                                              *)
(***************************************************************************)
\* GrpcServiceInfo[], reduced to the services' ids
ServicePayloads == {<<>>, <<"a">>, <<"b", "a">>}

\* the bulk connection payloads of the full-replace runs
ConnectionPayloads ==
    {<<>>,
     <<[id |-> 1, status |-> "connected"]>>,
     <<[id |-> 2, status |-> "error"], [id |-> 1, status |-> "connected"]>>}

\* StatsData, reduced to its request counter
StatsPayloads == {[totalRequests |-> 0], [totalRequests |-> 1]}

\* handleServicesUpdate: Services.tsx 102-104, part_003 143-145
handleServicesUpdate(prev, servicesData) ==
    servicesData

\* handleStatsUpdate: api.ts 156-159, part_003 153-155
handleStatsUpdate(prev, statsData) ==
    statsData

InitReplace ==
    /\ services = <<>>
    /\ stats = InitialStats
    /\ arrival = NoArrival

\* the response of the i-th fetch call in flight, a fetchServices(), arrives:
\* setServices(data), Services.tsx 91-92
FetchServicesDone(i, data) ==
    /\ page \in {"services", "dashboard", "logs"}
    /\ i \in 1..Len(pending)
    /\ pending[i].call = "fetchServices"
    /\ services' = data
    /\ arrival' = [arrival EXCEPT
                      !.services = Arrived(data, pending[i].overtaken)]
    /\ pending' = RemoveAt(pending, i)
    /\ flags' = fetchSucceeded(flags, page, "fetchServices",
                               newest(pending, i, flags))
    /\ lastOp' = "fetchServices"
    /\ UNCHANGED <<serviceVars, connectionsVars, logsVars, stats, prevLen,
                   syncVars>>

\* a 'services' push is dispatched to handleServicesUpdate
ServicesPush(data) ==
    /\ page \in {"services", "dashboard"}
    /\ services' = handleServicesUpdate(services, data)
    /\ arrival' = [arrival EXCEPT !.services = Arrived(data, FALSE)]
    /\ pending' = overtake(pending, "fetchServices")
    /\ lastOp' = "pushServices"
    /\ UNCHANGED <<serviceVars, connectionsVars, logsVars, stats, prevLen,
                   syncVars, flags>>

\* the response to ApiService.getStats() of the i-th fetch call in flight, a
\* fetchStats(), arrives: setStats(statsData), api.ts 139-140; the Stats
\* page's call goes on to await ApiService.getSystemInfo()
FetchStatsDone(i, data) ==
    /\ page \in {"stats", "dashboard"}
    /\ i \in 1..Len(pending)
    /\ pending[i].call = "fetchStats"
    /\ stats' = data
    /\ arrival' = [arrival EXCEPT
                      !.stats = Arrived(data, pending[i].overtaken)]
    /\ pending' = IF page = "stats"
                  THEN [pending EXCEPT ![i].call = "getSystemInfo"]
                  ELSE RemoveAt(pending, i)
    /\ flags' = IF page = "stats"
                THEN flags
                ELSE fetchSucceeded(flags, page, "fetchStats",
                                    newest(pending, i, flags))
    /\ lastOp' = "fetchStats"
    /\ UNCHANGED <<serviceVars, connectionsVars, logsVars, services, prevLen,
                   syncVars>>

\* the response to ApiService.getSystemInfo() arrives: api.ts 143-146
FetchSystemInfoDone(i) ==
    /\ page = "stats"
    /\ i \in 1..Len(pending)
    /\ pending[i].call = "getSystemInfo"
    /\ pending' = RemoveAt(pending, i)
    /\ flags' = fetchSucceeded(flags, page, "getSystemInfo",
                               newest(pending, i, flags))
    /\ lastOp' = "fetchSystemInfo"
    /\ UNCHANGED <<serviceVars, connectionsVars, logsVars, replaceVars,
                   prevLen, syncVars>>

\* a 'stats' push is dispatched to handleStatsUpdate
StatsPush(data) ==
    /\ page \in {"stats", "dashboard"}
    /\ stats' = handleStatsUpdate(stats, data)
    /\ arrival' = [arrival EXCEPT !.stats = Arrived(data, FALSE)]
    /\ pending' = overtake(pending, "fetchStats")
    /\ lastOp' = "pushStats"
    /\ UNCHANGED <<serviceVars, connectionsVars, logsVars, services, prevLen,
                   syncVars, flags>>

\* the i-th fetch call in flight fails (no response, an error status, a
\* timeout): the catch branch stores an error text and no data
FetchFailed(i) ==
    /\ i \in 1..Len(pending)
    /\ pending' = RemoveAt(pending, i)
    /\ flags' = fetchCaught(flags, page, pending[i].call, newest(pending, i, flags))
    /\ lastOp' = "fetchFailed"
    /\ UNCHANGED <<serviceVars, connectionsVars, logsVars, replaceVars,
                   prevLen, syncVars>>

InitRequests ==
    emitted = <<>>

\* private handlers = {}: socket.ts 28
InitHandlers ==
    /\ handlers = <<>>
    /\ caps = <<>>
    /\ lastCap = 0
    /\ dispatch = [event |-> "", invoked |-> <<>>, escaped |-> FALSE,
                   throwing |-> {}]
    /\ iteration = [event |-> "", arr |-> <<>>, live |-> FALSE, len |-> 0,
                    pos |-> 0, started |-> <<>>, invoked |-> <<>>,
                    busy |-> FALSE]

\* what the steps of the handler registry leave alone
nonHandlerVars == <<serviceVars, prevLen, connectionsVars, logsVars, fetchVars,
                    replaceVars, streamVars, requestVars, apiVars, timerVars>>

(***************************************************************************)
(* ApiClient (src/unnamed/part_001): the Transport Client's registry of    *)
(* abort controllers, kept by the request and response interceptors.       *)
(***************************************************************************)
Methods == {"get", "post"}
Paths == {"/services", "/logs"}

\* `${config.method}-${config.url}-${Date.now()}`: part_001 36.  The three
\* parts determine the text and, the last being digits only, the text
\* determines them; the text is kept as the triple.
requestId(method, path, time) == <<method, path, time>>

\* Map.prototype.set
set(map, key, value) ==
    [k \in DOMAIN map \cup {key} |-> IF k = key THEN value ELSE map[k]]

\* Map.prototype.delete
delete(map, key) ==
    [k \in DOMAIN map \ {key} |-> map[k]]

\* controller.abort() for every controller of the registry: the calls that
\* own one of them and are in flight are aborted (part_001 116-118)
abortEach(map, cs) ==
    [k \in 1..Len(cs) |->
        IF cs[k].state = "flight" /\ \E key \in DOMAIN map : map[key] = k
        THEN [cs[k] EXCEPT !.state = "aborted"]
        ELSE cs[k]]

\* HTTP statuses of error responses: one of each branch of part_001 77-92
\* and one that no branch tests for
Statuses == {400, 401, 403, 404, 500}

\* how a call fails: the server answers with a non-2xx status
\* (error.response is set), no response arrives or the 15 s timeout expires
\* (only error.request is set), or the request could not be set up (neither
\* is set)
Failures ==
    {[class |-> "status", status |-> s] : s \in Statuses}
        \cup {[class |-> c, status |-> 0] : c \in {"noResponse", "timeout", "setup"}}

\* the message of the notification the error branch of the response
\* interceptor shows, "" when it shows none: part_001 72-105
notification(failure) ==
    IF failure.class = "status"
    THEN IF failure.status = 401 \/ failure.status = 403
         THEN "Authentication Error"
         ELSE IF failure.status = 404
              THEN "Resource Not Found"
              ELSE IF failure.status >= 500
                   THEN "Server Error"
                   ELSE ""
    ELSE IF failure.class \in {"noResponse", "timeout"}
         THEN "Network Error"
         ELSE "Request Error"

\* what the error branch leaves behind for its call: part_001 72-107
Report(failure, notice) ==
    [failure |-> failure, notice |-> notice, rejected |-> TRUE]

InitApi ==
    /\ abortControllers = <<>>
    /\ calls = <<>>
    /\ reports = <<>>
    /\ now = 0

\* what the steps of the ApiClient leave alone
nonApiVars == <<serviceVars, prevLen, connectionsVars, logsVars, fetchVars,
                replaceVars, streamVars, requestVars, handlerVars, timerVars>>

\* a consumer calls apiClient.get / post: the request interceptor runs
\* (part_001 33-47)
ApiRequest(method, path) ==
    /\ Len(calls) < MaxCalls
    /\ LET id == requestId(method, path, now)
           controller == Len(calls) + 1
       IN  /\ abortControllers' = set(abortControllers, id, controller)
           /\ calls' = Append(calls, [id |-> id, state |-> "flight"])
    /\ lastOp' = "apiRequest"
    /\ UNCHANGED <<reports, now, nonApiVars>>

\* call k gets a 2xx response: the response interceptor deletes the entry
\* of the call's X-Request-ID (part_001 55-63)
ApiResponse(k) ==
    /\ k \in 1..Len(calls)
    /\ calls[k].state = "flight"
    /\ abortControllers' = delete(abortControllers, calls[k].id)
    /\ calls' = [calls EXCEPT ![k].state = "done"]
    /\ lastOp' = "apiResponse"
    /\ UNCHANGED <<reports, now, nonApiVars>>

\* call k fails: the error branch of the response interceptor deletes the
\* entry of the call's X-Request-ID, shows the notification of the failure
\* and rejects (part_001 64-108)
ApiError(k, failure) ==
    /\ k \in 1..Len(calls)
    /\ calls[k].state = "flight"
    /\ abortControllers' = delete(abortControllers, calls[k].id)
    /\ calls' = [calls EXCEPT ![k].state = "failed"]
    /\ reports' = set(reports, k, Report(failure, notification(failure)))
    /\ lastOp' = "apiError"
    /\ UNCHANGED <<now, nonApiVars>>

\* the promise of the aborted call k rejects: the error branch of the
\* response interceptor deletes the entry of the call's X-Request-ID; the
\* cancellation carries no response, and whether it carries the request
\* depends on the axios release, so the notification is that of a call
\* without response or that of a setup error
ApiAbortSettled(k) ==
    /\ k \in 1..Len(calls)
    /\ calls[k].state = "aborted"
    /\ abortControllers' = delete(abortControllers, calls[k].id)
    /\ calls' = [calls EXCEPT ![k].state = "settled"]
    /\ \E c \in {"noResponse", "setup"} :
          LET failure == [class |-> c, status |-> 0]
          IN  reports' = set(reports, k, Report(failure, notification(failure)))
    /\ lastOp' = "apiAbortSettled"
    /\ UNCHANGED <<now, nonApiVars>>

\* abortAllRequests: part_001 115-120
AbortAllRequests ==
    /\ calls' = abortEach(abortControllers, calls)
    /\ abortControllers' = <<>>
    /\ lastOp' = "abortAll"
    /\ UNCHANGED <<reports, now, nonApiVars>>

\* a millisecond passes
ClockTick ==
    /\ now < MaxClock
    /\ now' = now + 1
    /\ lastOp' = "clock"
    /\ UNCHANGED <<abortControllers, calls, reports, nonApiVars>>

\* a consumer calls socketService.on(event, handler) and keeps the closure
On(event, handler) ==
    /\ Len(caps) < MaxRegs
    /\ handlers' = on(handlers, event, handler, Len(caps) + 1)
    /\ caps' = Append(caps, [event |-> event, fn |-> handler])
    /\ lastOp' = "on"
    /\ UNCHANGED <<lastCap, dispatch, iteration, nonHandlerVars>>

\* a consumer calls socketService.off(event, handler)
Off(event, handler) ==
    /\ handlers' = off(handlers, event, handler)
    /\ lastOp' = "off"
    /\ UNCHANGED <<caps, lastCap, dispatch, iteration, nonHandlerVars>>

\* a consumer calls the closure the n-th on() returned:
\* () => { this.off(event, handler) }, socket.ts 161-163
Unsubscribe(n) ==
    /\ n \in 1..Len(caps)
    /\ handlers' = off(handlers, caps[n].event, caps[n].fn)
    /\ lastCap' = n
    /\ lastOp' = "unsubscribe"
    /\ UNCHANGED <<caps, dispatch, iteration, nonHandlerVars>>

\* a listener of the socket calls triggerHandlers(event, ...); the
\* handlers in throwing throw
Trigger(event, throwing) ==
    /\ LET r == triggerHandlers(handlers, event, throwing)
       IN  dispatch' = [event |-> event, invoked |-> r.invoked,
                        escaped |-> r.escaped, throwing |-> throwing]
    /\ lastOp' = "trigger"
    /\ UNCHANGED <<handlers, caps, lastCap, iteration, nonHandlerVars>>

\* what a handler does to the registry while it runs: nothing, a call of
\* on(), or a call of off() (the closure on() returned calls off() too)
HandlerActs ==
    {[op |-> "none", event |-> "", fn |-> ""]}
        \cup [op : {"on", "off"}, event : Events, fn : HandlerFns]

\* a listener of the socket calls triggerHandlers(event, ...) and the
\* forEach begins; the calls of the handlers are the steps that follow
TriggerBegin(event) ==
    /\ ~iteration.busy
    /\ iteration' = forEachBegin(handlers, event)
    /\ lastOp' = "triggerBegin"
    /\ UNCHANGED <<handlers, caps, lastCap, dispatch, nonHandlerVars>>

\* the forEach calls the next handler, which does act and returns
HandlerRuns(act) ==
    /\ iteration.busy
    /\ iteration.pos < visitBound(iteration)
    /\ LET handler == iteration.arr[iteration.pos + 1]
           it == [iteration EXCEPT !.pos = @ + 1,
                                   !.invoked = Append(@, handler)]
       IN  CASE act.op = "none" ->
                  /\ iteration' = it
                  /\ UNCHANGED <<handlers, caps>>
             [] act.op = "on" ->
                  /\ Len(caps) < MaxRegs
                  /\ handlers' = on(handlers, act.event, act.fn, Len(caps) + 1)
                  /\ caps' = Append(caps, [event |-> act.event, fn |-> act.fn])
                  /\ iteration' = afterOn(it, handlers', act.event)
             [] act.op = "off" ->
                  /\ handlers' = off(handlers, act.event, act.fn)
                  /\ iteration' = afterOff(it, act.event)
                  /\ UNCHANGED caps
    /\ lastOp' = "handler"
    /\ UNCHANGED <<lastCap, dispatch, nonHandlerVars>>

\* a consumer calls on() or off() while no dispatch is running (a dispatch
\* runs to its end before any other code does)
OnBetween(event, handler) ==
    ~iteration.busy /\ On(event, handler)

OffBetween(event, handler) ==
    ~iteration.busy /\ Off(event, handler)

\* the forEach has visited every index below its bound and
\* triggerHandlers returns
TriggerEnd ==
    /\ iteration.busy
    /\ iteration.pos >= visitBound(iteration)
    /\ iteration' = [iteration EXCEPT !.busy = FALSE]
    /\ lastOp' = "triggerEnd"
    /\ UNCHANGED <<handlers, caps, lastCap, dispatch, nonHandlerVars>>

\* a consumer calls socketService.getServices(), getConnections(), getLogs()
\* or getStats()
Request(event) ==
    /\ emitted' = request(This, emitted, event)
    /\ Len(emitted') <= MaxEmits
    /\ lastOp' = IF isConnected(This) THEN "request" ELSE "requestDropped"
    /\ UNCHANGED <<serviceVars, prevLen, connectionsVars, logsVars, fetchVars,
                   replaceVars, streamVars, clientVars, timerVars>>

\* the page's settings effect has read a refresh interval from the saved
\* settings and stored it (setRefreshInterval(refreshInterval * 1000),
\* Services.tsx 60-67): the subscription effect, which depends on it, runs
\* again; its cleanup aborts the calls in flight and its body makes the
\* fetch calls and the requests again and sets the timer
SetRefreshInterval(seconds) ==
    /\ refreshInterval = 0
    /\ seconds > 0
    /\ refreshInterval' = seconds * 1000
    /\ LET t == effectTimers(intervals, intervalId, page, refreshInterval')
       IN  /\ intervals' = t.intervals
           /\ intervalId' = t.intervalId
    /\ Len(intervals') <= MaxIntervals
    /\ pending' = effectFetches(page, "mount")
    /\ flags' = effectFlags(flags, page, pending, pending')
    /\ emitted' = requestAll(This, emitted, effectRequests(page))
    /\ Len(emitted') <= MaxEmits
    /\ lastOp' = "settings"
    /\ UNCHANGED <<serviceVars, prevLen, connectionsVars, logsVars,
                   replaceVars, streamVars, clientVars>>

\* the callback of an active timer runs: the auto-refresh of the page that
\* set it
RefreshTick ==
    /\ \E id \in 1..Len(intervals) :
          /\ intervals[id].state = "active"
          /\ LET tick == intervalTick(intervals[id].page, isConnected(This))
             IN  /\ emitted' = requestAll(This, emitted, tick.requests)
                 /\ pending' = pending \o tick.fetches
                 /\ flags' = fetchBeginAll(flags, intervals[id].page, tick.fetches)
    /\ Len(emitted') <= MaxEmits
    /\ Len(pending') <= MaxPending
    /\ lastOp' = "tick"
    /\ UNCHANGED <<serviceVars, prevLen, connectionsVars, logsVars,
                   replaceVars, streamVars, clientVars, refreshInterval,
                   intervals, intervalId>>

Init ==
    /\ InitSocket
    /\ InitConnections
    /\ InitLogs
    /\ InitStream
    /\ InitFetch
    /\ InitReplace
    /\ InitRequests
    /\ InitHandlers
    /\ InitApi
    /\ InitTimers
    /\ prevLen = 0
    /\ lastOp = "init"

Next ==
    \/ \E u \in Urls, thrown \in BOOLEAN : Connect(u, thrown)
    \/ Disconnect
    \/ \E i \in 1..MaxTimers, thrown \in BOOLEAN : RetryTimer(i, thrown)
    \/ SocketConnect
    \/ SocketConnectError
    \/ \E reason \in Reasons : SocketDisconnect(reason)
    \/ \E c \in 1..MaxChannels, reason \in Reasons : LateClose(c, reason)

Spec == Init /\ [][Next]_vars

\* what consumers pass to configureReconnection: a lower ceiling, a longer
\* delay, both
ReconnectionOptions ==
    {[maxAttempts |-> 2], [delay |-> 2 * DefaultReconnectionDelay],
     [maxAttempts |-> 2, delay |-> 2 * DefaultReconnectionDelay]}

\* the service while its consumer also reconfigures the reconnection
NextReconnect ==
    \/ Connect("origin", FALSE)
    \/ Disconnect
    \/ \E i \in 1..MaxTimers : RetryTimer(i, FALSE)
    \/ SocketConnect
    \/ SocketConnectError
    \/ \E reason \in Reasons : SocketDisconnect(reason)
    \/ \E value \in BOOLEAN : SetAutoReconnect(value)
    \/ \E options \in ReconnectionOptions : ConfigureReconnection(options)

SpecReconnect == Init /\ [][NextReconnect]_vars

NextConnections ==
    \/ \E p \in {"connections", "logs"} : Navigate(p)
    \/ \E c \in ConnectionRecords : ConnectionPush(c)
    \/ \E data \in ConnectionSets : ConnectionsPush(data)
    \/ \E i \in 1..MaxPending, data \in ConnectionSets : FetchConnectionsDone(i, data)

SpecConnections == Init /\ [][NextConnections]_vars

NextLogs ==
    \/ \E p \in {"logs", "dashboard"} : Navigate(p)
    \/ \E log \in LogEntries : LogsLogPush(log)
    \/ \E log \in LogEntries : DashboardLogPush(log)
    \/ \E i \in 1..MaxPending, n \in 0..MaxFetchLen : FetchLogsDone(i, n)
    \/ \E i \in 1..MaxPending, n \in 0..MaxFetchLen : DashboardFetchLogsDone(i, n)
    \/ \E levels \in LevelChoices, service \in ServiceChoices,
          searchText \in SearchChoices, limit \in Limits :
            ApplyFilters(levels, service, searchText, limit)
    \/ \E value \in SearchChoices : DebouncedSearch(value)
    \/ ResetFilters

SpecLogs == Init /\ [][NextLogs]_vars

\* the pages whose view-state every arrival replaces
NextReplace ==
    \/ \E p \in {"services", "connections", "stats"} : Navigate(p)
    \/ \E i \in 1..MaxPending, data \in ServicePayloads : FetchServicesDone(i, data)
    \/ \E data \in ServicePayloads : ServicesPush(data)
    \/ \E i \in 1..MaxPending, data \in ConnectionPayloads :
            FetchConnectionsDone(i, data)
    \/ \E data \in ConnectionPayloads : ConnectionsPush(data)
    \/ \E i \in 1..MaxPending, data \in StatsPayloads : FetchStatsDone(i, data)
    \/ \E i \in 1..MaxPending : FetchSystemInfoDone(i)
    \/ \E data \in StatsPayloads : StatsPush(data)
    \/ \E i \in 1..MaxPending : FetchFailed(i)
    \/ SetRefreshInterval(DefaultRefreshSeconds)
    \/ RefreshTick

SpecReplace == Init /\ [][NextReplace]_vars

\* the handler registry of the service under its consumers' calls
NextHandlers ==
    \/ \E event \in Events, handler \in HandlerFns : On(event, handler)
    \/ \E event \in Events, handler \in HandlerFns : Off(event, handler)
    \/ \E n \in 1..MaxRegs : Unsubscribe(n)
    \/ \E event \in Events, throwing \in SUBSET HandlerFns : Trigger(event, throwing)

SpecHandlers == Init /\ [][NextHandlers]_vars

\* the handler registry when handlers register and unregister handlers
\* while they are dispatched to; between two dispatches consumers call
\* on() and off()
NextDispatch ==
    \/ \E event \in Events, handler \in HandlerFns : OnBetween(event, handler)
    \/ \E event \in Events, handler \in HandlerFns : OffBetween(event, handler)
    \/ \E event \in Events : TriggerBegin(event)
    \/ \E act \in HandlerActs : HandlerRuns(act)
    \/ TriggerEnd

SpecDispatch == Init /\ [][NextDispatch]_vars

\* the failures of the registry runs: an error response and a timeout
CompletionFailures ==
    {f \in Failures : f.status = 500 \/ f.class = "timeout"}

\* the Transport Client under its consumers' calls
NextApi ==
    \/ \E method \in Methods, path \in Paths : ApiRequest(method, path)
    \/ \E k \in 1..MaxCalls : ApiResponse(k)
    \/ \E k \in 1..MaxCalls, failure \in CompletionFailures : ApiError(k, failure)
    \/ \E k \in 1..MaxCalls : ApiAbortSettled(k)
    \/ AbortAllRequests
    \/ ClockTick

SpecApi == Init /\ [][NextApi]_vars

\* the Transport Client's calls and their outcomes, every failure included
NextApiErrors ==
    \/ \E path \in Paths : ApiRequest("get", path)
    \/ \E k \in 1..MaxCalls : ApiResponse(k)
    \/ \E k \in 1..MaxCalls, failure \in Failures : ApiError(k, failure)

SpecApiErrors == Init /\ [][NextApiErrors]_vars

\* the event channel under its consumers' requests
NextRequests ==
    \/ \E u \in Urls, thrown \in BOOLEAN : Connect(u, thrown)
    \/ Disconnect
    \/ SocketConnect
    \/ \E reason \in Reasons : SocketDisconnect(reason)
    \/ \E event \in RequestEvents : Request(event)

SpecRequests == Init /\ [][NextRequests]_vars

\* the pages' auto-refresh while the event channel connects and disconnects
NextRefresh ==
    \/ Connect("origin", FALSE)
    \/ SocketConnect
    \/ \E p \in Pages : Navigate(p)
    \/ SetRefreshInterval(DefaultRefreshSeconds)
    \/ RefreshTick

SpecRefresh == Init /\ [][NextRefresh]_vars

\* the pages' timers while components are mounted and unmounted and the
\* Logs page's effect runs again (the Stats page and the Dashboard set and
\* clear their timers as the Services page does)
NextTimers ==
    \/ Connect("origin", FALSE)
    \/ SocketConnect
    \/ \E p \in {"services", "connections"} : Navigate(p)
    \/ SetRefreshInterval(DefaultRefreshSeconds)
    \/ ResetFilters
    \/ RefreshTick

SpecTimers == Init /\ [][NextTimers]_vars

\* the Services and Connections pages while the socket is down: the mount
\* effect and every tick of the refresh timer call the page's fetch
\* function, the calls overlap, and each one succeeds or fails
NextFetch ==
    \/ \E p \in {"services", "connections"} : Navigate(p)
    \/ SetRefreshInterval(DefaultRefreshSeconds)
    \/ RefreshTick
    \/ \E i \in 1..MaxPending, data \in ServicePayloads : FetchServicesDone(i, data)
    \/ \E i \in 1..MaxPending, data \in ConnectionPayloads :
            FetchConnectionsDone(i, data)
    \/ \E i \in 1..MaxPending : FetchFailed(i)

SpecFetch == Init /\ [][NextFetch]_vars

(***************************************************************************)
(* The Logs page under a numbered stream of 'log' pushes: the socket's     *)
(* 'log' listener hands every entry the backend emits to handleLogUpdate,  *)
(* and the backend numbers the entries it emits.  The page starts with any *)
(* filters the form admits and any stored sequence a fetch has left.       *)
(***************************************************************************)
\* the id of the n-th entry of the stream (fetched entries have ids 1 and 2)
StreamId(n) == 2 + n

\* the n-th entry of the stream
StreamLog(n, level) ==
    [id |-> StreamId(n), level |-> level,
     message |-> <<"A", "b">>, context |-> <<"c">>,
     service |-> <<"b">>, method |-> <<>>, traceId |-> <<>>]

FilterChoices ==
    [levels : LevelChoices, service : ServiceChoices,
     searchText : SearchChoices, limit : Limits]

InitLogStream ==
    /\ InitSocket
    /\ InitConnections
    /\ page = "logs"
    /\ filters \in FilterChoices
    /\ logs \in {ServerLogs(k) : k \in 0..MaxFetchLen}
    /\ dashboardLogs = <<>>
    /\ InitStream
    /\ InitReplace
    /\ InitRequests
    /\ InitHandlers
    /\ InitApi
    /\ InitTimers
    /\ pending = <<>>
    /\ flags = fetchSucceeded(fetchBegin(NoFlags, "logs", "fetchLogs"), "logs",
                              "fetchLogs", TRUE)
    /\ prevLen = 0
    /\ lastOp = "init"

\* the next entry of the stream is dispatched to Logs.handleLogUpdate
LogStreamPush(level) ==
    /\ page = "logs"
    /\ pushCount < MaxPushes
    /\ LET log == StreamLog(pushCount + 1, level)
       IN  /\ logs' = handleLogUpdate(logs, log, filters)
           /\ pushCount' = IF matchesFilters(log, filters)
                              THEN pushCount + 1 ELSE pushCount
           /\ lastOp' = IF matchesFilters(log, filters)
                           THEN "pushLog" ELSE "pushLogDropped"
    /\ prevLen' = Len(logs)
    /\ UNCHANGED <<serviceVars, connectionsVars, fetchVars, replaceVars,
                   requestVars, clientVars, timerVars, page, filters,
                   dashboardLogs>>

NextLogStream ==
    \E level \in {"error", "info"} : LogStreamPush(level)

SpecLogStream == InitLogStream /\ [][NextLogStream]_vars

(***************************************************************************)
(* The Logs page's table: the stored sequence as a fetch under the initial *)
(* filters left it, one entry of every level, and pushes of entries that   *)
(* carry a trace id, while the user changes the filters.                   *)
(***************************************************************************)
\* LogLevel in the order of the type: api.ts 39
LevelOrder == <<"error", "warn", "info", "debug", "verbose">>

\* a fetched sequence with one entry of every level; the fourth entry
\* carries a trace id
AllLevelLogs ==
    [i \in 1..Len(LevelOrder) |->
        [id |-> i, level |-> LevelOrder[i],
         message |-> <<"A", "b">>, context |-> <<"c">>,
         service |-> <<>>, method |-> <<>>,
         traceId |-> IF i = 4 THEN <<"z">> ELSE <<>>]]

\* pushed entries: with and without a trace id
TracedEntries ==
    {[id |-> 6, level |-> l,
      message |-> <<"A", "b">>, context |-> <<"c">>,
      service |-> <<>>, method |-> <<>>, traceId |-> t] :
        l \in {"error", "info"}, t \in {<<>>, <<"z">>}}

InitLogView ==
    /\ InitSocket
    /\ InitConnections
    /\ page = "logs"
    /\ filters = DefaultFilters
    /\ logs = AllLevelLogs
    /\ dashboardLogs = <<>>
    /\ InitStream
    /\ InitReplace
    /\ InitRequests
    /\ InitHandlers
    /\ InitApi
    /\ InitTimers
    /\ pending = <<>>
    /\ flags = fetchSucceeded(fetchBegin(NoFlags, "logs", "fetchLogs"), "logs",
                              "fetchLogs", TRUE)
    /\ prevLen = 0
    /\ lastOp = "init"

NextLogView ==
    \/ \E log \in TracedEntries : LogsLogPush(log)
    \/ \E i \in 1..MaxPending, n \in 0..MaxFetchLen : FetchLogsDone(i, n)
    \/ \E i \in 1..MaxPending : FetchFailed(i)
    \/ \E levels \in LevelChoices, service \in ServiceChoices,
          searchText \in SearchChoices, limit \in Limits :
            ApplyFilters(levels, service, searchText, limit)
    \/ \E value \in SearchChoices : DebouncedSearch(value)
    \/ ResetFilters

SpecLogView == InitLogView /\ [][NextLogView]_vars

(***************************************************************************)
(* Claims about the SocketService, checked under Spec.                     *)
(***************************************************************************)

\* what a consumer can observe of the service: the state of the channel
\* this.socket refers to, the attempt count and the auto-reconnect flag
ChannelState(s) == IF s.socket = 0 THEN "none" ELSE s.chans[s.socket]

View(s) == <<ChannelState(s), s.reconnectAttempts, s.autoReconnect>>

\* the channels that are open or opening: created and not torn down
LiveChannels == {c \in 1..Len(chans) : chans[c] \in {"opening", "open", "down"}}

\* C1: after every sequence of steps that ends with a connect() call of the
\* consumer, the auto-reconnect flag is true (an explicit connect()
\* re-enables auto-reconnect).
C1_ConnectEnablesAutoReconnect ==
    lastOp = "connect" => autoReconnect

\* C2: after the consumer's disconnect() no previously scheduled retry
\* fires and no channel is opened until the consumer calls connect() again.
C2_DisconnectCancelsRetry ==
    userClosed => (lastOp # "timer" /\ socket = 0 /\ LiveChannels = {})

\* C3: once the failed attempts exceeded the configured maximum
\* (attemptReconnect refused to schedule), no retry timer fires and no
\* channel is opened, until the channel connects or the consumer acts.
C3_NoRetryAfterMaxAttempts ==
    maxReached => (lastOp # "timer" /\ ChannelState(This) \in {"down", "none"})

\* C4: the attempt count is 0 right after the channel reached Connected and
\* right after every explicit disconnect() call.
C4_AttemptsReset ==
    lastOp \in {"evConnect", "disconnect"} => reconnectAttempts = 0

\* C4 witness: the channel connected after failed attempts had scheduled a
\* retry, and the count is back at 0.
C4_Witness ==
    /\ lastOp = "evConnect"
    /\ timers # <<>>
    /\ isConnected(This)
    /\ reconnectAttempts = 0

\* C5: every step that schedules a retry raises the attempt count by one, to
\* k <= maxReconnectAttempts, and schedules exactly one timer with delay
\* reconnectionDelay * k; while auto-reconnect is enabled and the count is
\* below the ceiling, every failure (connect_error, unexpected close)
\* schedules such a retry.
C5_LinearBackoff ==
    [][ /\ (timers' # timers /\ lastOp' # "timer") =>
              /\ reconnectAttempts' = reconnectAttempts + 1
              /\ reconnectAttempts' <= maxReconnectAttempts
              /\ timers' = Append(timers, reconnectionDelay * reconnectAttempts')
        /\ (/\ lastOp' \in {"evConnectError", "evDisconnect"}
            /\ autoReconnect
            /\ reconnectAttempts < maxReconnectAttempts) =>
              Len(timers') = Len(timers) + 1
      ]_vars

\* C5 witness: five failures in a row scheduled the retries 1..5 with the
\* delays 1000, 2000, ..., 5000 and the count reached the ceiling.
C5_Witness ==
    /\ autoReconnect
    /\ reconnectAttempts = maxReconnectAttempts
    /\ timers = [k \in 1..DefaultMaxReconnectAttempts |-> DefaultReconnectionDelay * k]

\* C6: a late close event that follows an explicit disconnect() attempts no
\* reconnect: the attempt count stays 0 and no retry timer is scheduled.
C6_LateCloseAfterDisconnect ==
    [][ (lastOp = "disconnect" /\ lastOp' = "evLateClose") =>
            (reconnectAttempts' = 0 /\ timers' = timers) ]_vars

\* C6 witness: the only channel ever created was torn down by disconnect()
\* and its late close event was delivered.
C6_Witness ==
    /\ lastOp = "evLateClose"
    /\ userClosed
    /\ Len(chans) = 1
    /\ chans[1] = "dead"
    /\ socket = 0

\* C7: at most one channel is open or opening at any time, and it is the one
\* this.socket refers to.
C7_SingleChannel ==
    /\ Cardinality(LiveChannels) <= 1
    /\ LiveChannels = IF socket = 0 THEN {} ELSE {socket}

\* C7 witness: a retry timer called connect() while an earlier retry's
\* channel was still opening: that channel was torn down for the new one.
C7_Witness ==
    /\ lastOp = "timer"
    /\ Len(chans) = 3
    /\ chans[2] = "torn"
    /\ chans[3] = "opening"
    /\ timers = <<3 * DefaultReconnectionDelay>>

\* C8: connect(address) is idempotent while Connecting: a second connect()
\* right after a connect() leaves channel state, attempt count and
\* auto-reconnect flag as the first one left them.
C8_ConnectIdempotent ==
    (lastOp = "connect" /\ ChannelState(This) = "opening") =>
        View(connect(This, url, FALSE)) = View(This)

\* C26: a channel that has reached Connected stops being connected only by
\* a disconnect() or connect() call of the consumer or by an unexpected
\* close, never by a retry timer that was scheduled before it connected.
C26_RetryKeepsConnectedChannel ==
    [][(socket # 0 /\ chans[socket] = "open" /\ chans'[socket] # "open")
          => lastOp' \in {"connect", "disconnect", "evDisconnect"}]_vars

\* C27: in every reachable state 0 <= reconnectAttempts <=
\* maxReconnectAttempts, whatever connect(), disconnect(), channel events,
\* timer firings and configureReconnection() calls led to it.
C27_AttemptsWithinCeiling ==
    0 <= reconnectAttempts /\ reconnectAttempts <= maxReconnectAttempts

(***************************************************************************)
(* Claims about the Connections page, checked under SpecConnections.       *)
(***************************************************************************)

\* C9: a pushed record whose id is not in the view-state is appended at the
\* end; one whose id is present replaces the entry at that position, and
\* the length and every other entry stay as they were.
C9_Upsert ==
    \A c \in ConnectionRecords :
        LET after == handleConnectionUpdate(connections, c)
            seen  == {i \in 1..Len(connections) : connections[i].id = c.id}
        IN  IF seen = {}
            THEN /\ Len(after) = Len(connections) + 1
                 /\ after[Len(after)] = c
                 /\ \A i \in 1..Len(connections) : after[i] = connections[i]
            ELSE /\ Len(after) = Len(connections)
                 /\ \E p \in seen :
                       /\ after[p] = c
                       /\ \A i \in 1..Len(after) \ {p} : after[i] = connections[i]

\* C9 witness: a push replaced a record of a view-state holding several
\* records: the length is what it was before the push.
C9_Witness ==
    /\ lastOp = "pushConnection"
    /\ Len(connections) >= 2
    /\ prevLen = Len(connections)

\* C25: the ids of the records of the connections view-state are pairwise
\* distinct after every interleaving of full-set replaces (fetch responses
\* and 'connections' pushes, whose records have distinct ids) and
\* single-record 'connection' upserts.
C25_IdsUnique ==
    \A i, j \in 1..Len(connections) :
        i # j => connections[i].id # connections[j].id

\* C25 witness: a full set of two records in descending order of id was
\* stored and a pushed record with a third id was appended to it.
C25_Witness ==
    /\ lastOp = "pushConnection"
    /\ prevLen = 2
    /\ Len(connections) = 3
    /\ connections[1].id > connections[2].id

(***************************************************************************)
(* Claims about the log merge, checked under SpecLogs.                     *)
(***************************************************************************)

\* C10: after a log push is merged the stored sequence has at most `limit`
\* entries (the Logs page's configured limit, the Dashboard's 5), whatever
\* its length was before.
C10_LogLengthBounded ==
    lastOp = "pushLog" =>
        /\ page = "logs" => Len(logs) <= filters.limit
        /\ page = "dashboard" => Len(dashboardLogs) <= DashboardLogLimit

\* C10 witness: a push was merged into a stored sequence that was longer
\* than the limit and the result has exactly `limit` entries.
C10_Witness ==
    /\ lastOp = "pushLog"
    /\ page = "logs"
    /\ filters.limit >= 2
    /\ prevLen > filters.limit
    /\ Len(logs) = filters.limit

\* the steps that change a filter of the Logs page
FilterOps == {"applyFilters", "search", "resetFilters"}

\* every entry of the sequence a is an entry of the sequence b
AllStored(a, b) == \A i \in 1..Len(a) : \E j \in 1..Len(b) : b[j] = a[i]

\* C12 as stated: changing a filter loses no stored entry: neither the
\* change itself nor the arrival of the response to the fetch the change
\* issues removes an entry from the stored log sequence.
C12_FilterChangeKeepsEntries ==
    [][(lastOp' \in FilterOps \/ lastOp' = "refetchLogs")
          => AllStored(logs, logs')]_vars

\* C12 amended: a filter change does not by itself modify the stored log
\* sequence, and it issues a fetchLogs() with the new filters; the stored
\* sequence changes only when a push is merged, when the response of a
\* fetch (that one included) replaces it, or when the page is left.
C12_FilterChangeFrame ==
    [][/\ lastOp' \in FilterOps =>
            /\ logs' = logs
            /\ \E i \in 1..Len(pending') :
                    pending'[i] = Fetch("fetchLogs", "filter")
       /\ logs' # logs =>
            lastOp' \in {"pushLog", "fetchLogs", "refetchLogs", "navigate"}]_vars

\* C12 witness: the filters were changed over a stored sequence of at least
\* two entries, which is still stored while the refetch is in flight.
C12_Witness ==
    /\ lastOp \in FilterOps
    /\ filters # DefaultFilters
    /\ Len(logs) >= 2
    /\ pending[1] = Fetch("fetchLogs", "filter")

(***************************************************************************)
(* Claims about the Logs page under the numbered stream, checked under     *)
(* SpecLogStream.                                                          *)
(***************************************************************************)

\* C11 as stated: after n pushes of the stream were merged under limit L the
\* stored sequence consists of exactly the min(n, L) most recently pushed
\* entries, newest first.
C11_ExactlyMostRecent ==
    pushCount > 0 =>
        LET m == Min(pushCount, filters.limit)
        IN  /\ Len(logs) = m
            /\ \A i \in 1..m : logs[i].id = StreamId(pushCount - i + 1)

\* C11 amended: after n pushes of the stream were merged under limit L the
\* stored sequence begins with the min(n, L) most recently pushed entries,
\* newest first; it consists of exactly those when n >= L, and for n < L
\* entries stored before the first push follow them.
C11_NewestFirstPrefix ==
    pushCount > 0 =>
        LET m == Min(pushCount, filters.limit)
        IN  /\ Len(logs) >= m
            /\ \A i \in 1..m : logs[i].id = StreamId(pushCount - i + 1)
            /\ pushCount >= filters.limit => Len(logs) = filters.limit
            /\ \A i \in (m + 1)..Len(logs) : logs[i].id < StreamId(1)

\* C11 witness: more pushes than the limit were merged and the stored
\* sequence holds `limit` >= 2 of them.
C11_Witness ==
    /\ lastOp = "pushLog"
    /\ filters.limit >= 2
    /\ pushCount > filters.limit
    /\ Len(logs) = filters.limit

(***************************************************************************)
(* Claims about the full-replace domains, checked under SpecReplace.       *)
(***************************************************************************)

\* the view-state of a full-replace domain
ViewOf(d) ==
    CASE d = "services" -> services
      [] d = "connections" -> connections
      [] d = "stats" -> stats

\* C13: while a page is mounted, the view-state of each full-replace domain
\* (services, bulk connections, stats) equals the payload of the fetch
\* response or bulk push that arrived last, also when that arrival is the
\* response of a fetch that a later push had overtaken.
C13_LastArrivalWins ==
    \A d \in ReplaceDomains :
        arrival[d] # <<>> => ViewOf(d) = arrival[d][1].payload

\* C13 witness: the response of a fetchConnections() call arrived after a
\* bulk push that was stored while the call was in flight, and its two
\* connections are the view-state.
C13_Witness ==
    /\ lastOp = "fetchConnections"
    /\ arrival.connections # <<>>
    /\ arrival.connections[1].late
    /\ Len(connections) = 2

(***************************************************************************)
(* Claims about the auto-refresh, checked under SpecRefresh.               *)
(***************************************************************************)

\* C14: on every page with auto-refresh a timer tick makes the push-based
\* request on the event channel and no fetch call when the channel is
\* connected, and makes a fetch call and no request when it is not.
C14_TickPrefersChannel ==
    [][lastOp' = "tick" =>
          IF isConnected(This)
          THEN emitted' # emitted /\ pending' = pending
          ELSE emitted' = emitted /\ pending' # pending]_vars

(***************************************************************************)
(* Claims about the handler registry, checked under SpecHandlers.          *)
(***************************************************************************)

\* the handlers registered for an event
Registered(event) ==
    IF event \in DOMAIN handlers THEN handlers[event] ELSE <<>>

\* C15: when an event is dispatched, no exception of a handler reaches the
\* caller of the dispatch, and every handler registered for the event is
\* invoked, the ones after a throwing handler included.
C15_HandlerErrorsIsolated ==
    lastOp = "trigger" =>
        /\ ~dispatch.escaped
        /\ dispatch.invoked = Registered(dispatch.event)

\* C15 witness: the first handler of a dispatch threw and a second handler,
\* which did not throw, was invoked after it.
C15_Witness ==
    /\ lastOp = "trigger"
    /\ Len(dispatch.invoked) >= 2
    /\ dispatch.invoked[1].fn \in dispatch.throwing
    /\ dispatch.invoked[2].fn \notin dispatch.throwing

\* C16: after any sequence of on() and off() calls a dispatch invokes the
\* handlers of the event in the order of the on() calls that registered
\* them.
C16_RegistrationOrder ==
    lastOp = "trigger" =>
        \A i, j \in 1..Len(dispatch.invoked) :
            i < j => dispatch.invoked[i].reg < dispatch.invoked[j].reg

\* C16 witness: three handlers were registered for one event, the second
\* was removed, and a dispatch invoked the first and then the third.
C16_Witness ==
    /\ lastOp = "trigger"
    /\ Len(caps) = 3
    /\ \A n \in 1..3 : caps[n].event = dispatch.event
    /\ Len(dispatch.invoked) = 2
    /\ dispatch.invoked[1].reg = 1
    /\ dispatch.invoked[2].reg = 3

\* C17: calling the closure that the n-th on() call returned removes the
\* registration of that call and no other: every other registration for the
\* same event stays, in the same relative order, and the registrations of
\* the other events are unchanged.
C17_UnsubscribeRemovesOnlyItsOwn ==
    [][lastOp' = "unsubscribe" =>
          /\ DOMAIN handlers' = DOMAIN handlers
          /\ \A e \in DOMAIN handlers :
                handlers'[e] = SelectSeq(handlers[e], LAMBDA h : h.reg # lastCap')]_vars

\* C28: a dispatch invokes exactly the handlers that were registered for
\* its event when it began, each once and in their order: a handler that an
\* earlier handler unregistered during the dispatch is still invoked and a
\* handler registered during the dispatch is not.
C28_DispatchSnapshot ==
    lastOp = "triggerEnd" => iteration.invoked = iteration.started

\* C28 witness: two handlers were registered when the dispatch began; while
\* it ran the second registration was removed and a third was added; the
\* dispatch invoked the first and the second, and the registry holds the
\* first and the third.
C28_Witness ==
    /\ lastOp = "triggerEnd"
    /\ Len(iteration.invoked) = 2
    /\ iteration.invoked[1].reg = 1
    /\ iteration.invoked[2].reg = 2
    /\ Len(Registered(iteration.event)) = 2
    /\ Registered(iteration.event)[1].reg = 1
    /\ Registered(iteration.event)[2].reg = 3

(***************************************************************************)
(* Claims about the outbound requests, checked under SpecRequests.         *)
(***************************************************************************)

\* the steps in which a consumer calls a request method of the service
RequestOps == {"request", "tick", "navigate"} \cup FilterOps

\* C18: a request is written to the channel only by a call made while the
\* channel is connected, and then as the last element; a call made while it
\* is not connected writes nothing, and no later step (the channel
\* connecting included) writes anything for it.
C18_EmitOnlyWhenConnected ==
    [][/\ emitted' # emitted =>
            /\ isConnected(This)
            /\ lastOp' \in RequestOps
            /\ Len(emitted') > Len(emitted)
            /\ SubSeq(emitted', 1, Len(emitted)) = emitted
       /\ lastOp' = "requestDropped" => emitted' = emitted]_vars

\* C18 witness: a request was written while the channel was connected, the
\* channel went down, and a request called then was dropped.
C18_Witness ==
    /\ lastOp = "requestDropped"
    /\ socket # 0
    /\ chans[socket] = "down"
    /\ emitted # <<>>

(***************************************************************************)
(* Claims about the Transport Client, checked under SpecApi.               *)
(***************************************************************************)

\* C19: the correlation tokens of the calls in flight are pairwise
\* different, also those of two calls with the same method and path made at
\* the same clock value.
C19_TokensUnique ==
    \A j, k \in 1..Len(calls) :
        (j # k /\ calls[j].state = "flight" /\ calls[k].state = "flight")
            => calls[j].id # calls[k].id

\* C20: abortAllRequests() aborts every call in flight and leaves the
\* registry empty, and a call is aborted by no other step (a call made
\* after abortAllRequests() stays in flight until its response or the next
\* abortAllRequests()).
C20_AbortAllAbortsAll ==
    [][/\ lastOp' = "abortAll" =>
            /\ \A k \in 1..Len(calls') : calls'[k].state # "flight"
            /\ DOMAIN abortControllers' = {}
       /\ \A k \in 1..Len(calls) :
            (calls[k].state = "flight" /\ calls'[k].state = "aborted")
                => lastOp' = "abortAll"]_vars

\* the calls that own a controller of the registry
RegisteredCalls == {abortControllers[id] : id \in DOMAIN abortControllers}

\* the calls that were issued and have not completed
InFlight == {k \in 1..Len(calls) : calls[k].state = "flight"}

\* C21: the registry holds exactly the calls in flight: a call gets its
\* entry when it is issued, and a completion (success, error response,
\* timeout) removes the entry of the completed call and of no other.
C21_RegistryExact ==
    RegisteredCalls = InFlight

\* C22: every call that failed, whatever the failure class, was rejected to
\* its caller and a notification was shown for it.
C22_DualReporting ==
    \A k \in 1..Len(calls) :
        calls[k].state = "failed" =>
            /\ k \in DOMAIN reports
            /\ reports[k].rejected
            /\ reports[k].notice # ""

(***************************************************************************)
(* Claims about the Logs page's table, checked under SpecLogView.          *)
(***************************************************************************)

\* the levels of the entries of a sequence
LevelsOf(stored) == {stored[i].level : i \in 1..Len(stored)}

\* C23: with the severity set {error, warn} active, the sequence the table
\* shows of a stored sequence that holds entries of all five levels consists
\* of exactly the stored entries of level error or warn, in stored order.
C23_SeverityProjection ==
    (filters.levels = {"error", "warn"} /\ LevelsOf(logs) = AllLevels) =>
        filteredLogs(logs, filters) =
            SelectSeq(logs, LAMBDA log : log.level \in filters.levels)

\* the admission test of handleLogUpdate with every level and every service
\* admitted: what is left is its free-text search predicate
SearchAdmits(log, text) ==
    matchesFilters(log, [DefaultFilters EXCEPT !.searchText = text])

\* the free-text search predicate of the table
SearchShows(log, text) ==
    filteredLogs(<<log>>, [DefaultFilters EXCEPT !.searchText = text]) = <<log>>

\* C29: the search predicate that admits a pushed entry and the one that
\* projects the stored sequence agree: for every entry (pushed or stored)
\* and the search text of the page, both accept it or both reject it.
C29_SearchPredicatesAgree ==
    \A log \in TracedEntries \cup {logs[i] : i \in 1..Len(logs)} :
        SearchAdmits(log, filters.searchText) = SearchShows(log, filters.searchText)

(***************************************************************************)
(* Claims about the auto-refresh timers, checked under SpecTimers.         *)
(***************************************************************************)

\* the timers that can still fire
ActiveTimers == {id \in 1..Len(intervals) : intervals[id].state = "active"}

\* C24: a timer of a component that was torn down, or of an earlier run of
\* the effect, never fires: the only timer that is active is the one the
\* current effect run of the mounted page has set (so no two are active),
\* and a tick makes the requests and fetch calls of the mounted page's
\* callback and nothing else.
C24_NoTickAfterTeardown ==
    [][/\ \A id \in 1..Len(intervals') :
             intervals'[id].state = "active" =>
                 (id = intervalId' /\ intervals'[id].page = page')
       /\ lastOp' = "tick" =>
             LET tick == intervalTick(page, isConnected(This))
             IN  /\ ActiveTimers = {intervalId}
                 /\ emitted' = requestAll(This, emitted, tick.requests)
                 /\ pending' = pending \o tick.fetches]_vars

\* C24 witness: the Logs page's effect ran again with a timer set, the page
\* was left, and the timer of the page mounted then has fired; the two
\* timers of the Logs page are cleared.
C24_Witness ==
    /\ lastOp = "tick"
    /\ Len(intervals) = 3
    /\ intervals[1] = [page |-> "logs", state |-> "cleared"]
    /\ intervals[2] = [page |-> "logs", state |-> "cleared"]
    /\ intervals[3].page = page
    /\ ActiveTimers = {3}

(***************************************************************************)
(* Claims about the loading and error flags of the pages' fetch functions, *)
(* checked under SpecFetch.                                                *)
(***************************************************************************)

\* a call of fetch function c of the mounted page awaits its response
FetchInFlight(c) ==
    \E i \in 1..Len(pending) :
        hasFlags(page, pending[i].call) /\ flagOf(pending[i].call) = c

\* C30: for every fetch function of the mounted page, once all its calls
\* have completed and the call issued last succeeded, the error text is
\* null and the loading flag is false, whatever the order in which
\* overlapping calls completed.
C30_SettledFlags ==
    \A c \in FlagCalls :
        (~FetchInFlight(c) /\ flags[c].latest = "ok")
            => (flags[c].error = "" /\ ~flags[c].loading)

====
